---- MODULE Spec2Model ----
(***************************************************************************)
(* math2: square-free factorization of polynomials over the rationals      *)
(* (Yun's algorithm, factorization.rs), the divisor enumeration            *)
(* integer_divisors (factorization.rs) and the ring/field capabilities of   *)
(* traits.rs (invert, checked_inv, Field::div).                             *)
(*                                                                         *)
(* A rational is a pair <<n, d>> in lowest terms with d > 0, as BigRational *)
(* keeps it.  A polynomial is the sequence of its coefficients, index 1     *)
(* holding the constant term.  BigInt/BigRational are unbounded; the model  *)
(* computes with numerators and denominators of magnitude at most MaxMag    *)
(* and sends a call whose arithmetic leaves that range to pc = "overflow".  *)
(***************************************************************************)
EXTENDS Integers, Sequences, FiniteSets, TLC

\* Bounds of the model.
MaxLen == 4      \* stored coefficients of an input polynomial: 0..MaxLen
MaxCoef == 2     \* input coefficients are the integers -MaxCoef..MaxCoef
MaxMag == 30000  \* largest numerator/denominator magnitude the model computes with
MaxX == 60       \* integer_divisors is called with x in 1..MaxX
MaxNum == 4      \* ring/field operations: numerators in -MaxNum..MaxNum
MaxDen == 3      \* ring/field operations: denominators in 1..MaxDen

\* usize::MAX of the narrowest target Rust supports (16-bit usize).
UsizeMax == 65535

VARIABLES
    pc,             \* position of the one call in progress
    self,           \* square_free_factorization: the input polynomial
    leading_coeff,  \* SquareFreeFactorization.leading_coeff
    factors,        \* SquareFreeFactorization.factors: sequence of <<poly, mult>>
    r, f, j,        \* locals of square_free_factorization
    x, n, div, res, \* integer_divisors: argument, sqrt, loop variable, result
    op, arg, arg2, ret  \* ring/field operation called, its arguments and result

vars == <<pc, self, leading_coeff, factors, r, f, j, x, n, div, res, op, arg, arg2, ret>>

sqfVars == <<self, leading_coeff, factors, r, f, j>>
divVars == <<x, n, div, res>>
ringVars == <<op, arg, arg2, ret>>

----------------------------------------------------------------------------
(* Integers *)

Abs(a) == IF a < 0 THEN -a ELSE a

RECURSIVE IGcd(_, _)
IGcd(a, b) == IF b = 0 THEN a ELSE IGcd(b, a % b)

Fits(a) == -MaxMag <= a /\ a <= MaxMag

----------------------------------------------------------------------------
(* BigRational: exact rational arithmetic, lowest terms, positive denominator *)

NaR == <<0, 0>>          \* the result of arithmetic that left the model's range
IsRat(a) == a[2] > 0

RZero == <<0, 1>>
ROne == <<1, 1>>

\* Ratio::new: reduce to lowest terms.  Requires d > 0.
Rat(a, d) ==
    LET g == IGcd(Abs(a), d)
    IN  IF Fits(a \div g) /\ Fits(d \div g) THEN <<a \div g, d \div g>> ELSE NaR

FromInt(a) == <<a, 1>>

RNeg(a) == IF IsRat(a) THEN <<-a[1], a[2]>> ELSE NaR

RAdd(a, b) ==
    IF ~IsRat(a) \/ ~IsRat(b) THEN NaR
    ELSE LET g == IGcd(a[2], b[2])
         IN  Rat(a[1] * (b[2] \div g) + b[1] * (a[2] \div g), (a[2] \div g) * b[2])

RSub(a, b) == RAdd(a, RNeg(b))

RMul(a, b) ==
    IF ~IsRat(a) \/ ~IsRat(b) THEN NaR
    ELSE IF a[1] = 0 \/ b[1] = 0 THEN RZero
    ELSE LET g1 == IGcd(Abs(a[1]), b[2])
             g2 == IGcd(Abs(b[1]), a[2])
         IN  Rat((a[1] \div g1) * (b[1] \div g2), (a[2] \div g2) * (b[2] \div g1))

\* Ratio::recip: swap, keeping the denominator positive; panics ("division by
\* zero") on the zero rational, which DivByZero stands for.
DivByZero == <<1, 0>>
recip(a) ==
    IF a[1] = 0 THEN DivByZero
    ELSE IF a[1] > 0 THEN <<a[2], a[1]>> ELSE <<-a[2], -a[1]>>

\* Option<T>
None == [kind |-> "none", val |-> NaR]
Some(v) == [kind |-> "some", val |-> v]

\* A faulty variant: the zero test is missing.
checked_inv_nocheck(v) == Some(recip(v))

checked_inv(v) == IF v = RZero THEN None ELSE Some(recip(v))

\* Field::div (default method)
Field_div(a, b) ==
    LET i == checked_inv(b)
    IN  IF i.kind = "some" THEN Some(RMul(a, i.val)) ELSE None

\* FromUsize for BigRational
from_usize(k) == FromInt(k)

----------------------------------------------------------------------------
(* Polynomial<BigRational> *)

\* The sequence <<fn[1], ..., fn[k]>>, built element by element.
RECURSIVE Tabulate(_, _)
Tabulate(fn, k) == IF k = 0 THEN <<>> ELSE Append(Tabulate(fn, k - 1), fn[k])

PZero == <<>>
POne == <<ROne>>
BadPoly == <<NaR>>
IsBadPoly(p) == \E i \in 1..Len(p) : ~IsRat(p[i])

\* Highest index holding a non-zero coefficient; -1 stands for "no degree".
RECURSIVE TopIndex(_, _)
TopIndex(p, i) == IF i = 0 \/ p[i] # RZero THEN i ELSE TopIndex(p, i - 1)

degree(p) == TopIndex(p, Len(p)) - 1

Trim(p) == SubSeq(p, 1, degree(p) + 1)

is_zero(p) == degree(p) = -1
is_one(p) == degree(p) = 0 /\ p[1] = ROne

leading_coefficient_cloned(p) == p[degree(p) + 1]

scalar_mul(p, c) == Tabulate([i \in 1..Len(p) |-> RMul(p[i], c)], Len(p))

derivative(p) ==
    IF Len(p) <= 1 THEN PZero
    ELSE Tabulate([i \in 1..(Len(p) - 1) |-> RMul(p[i + 1], from_usize(i))],
                  Len(p) - 1)

\* Long division: eliminate the leading term of the running remainder rr with
\* the inverse of b's leading coefficient, until deg rr < deg b.
RECURSIVE div_rem_loop(_, _, _)
div_rem_loop(q, rr, b) ==
    IF IsBadPoly(q) \/ IsBadPoly(rr) THEN <<BadPoly, BadPoly>>
    ELSE IF degree(rr) < degree(b) THEN <<Trim(q), Trim(rr)>>
    ELSE LET d == degree(rr)
             db == degree(b)
             c == RMul(rr[d + 1], recip(b[db + 1]))
             rr2 == Tabulate([i \in 1..Len(rr) |->
                                 IF d - db < i /\ i <= d + 1
                                 THEN RSub(rr[i], RMul(c, b[i - (d - db)]))
                                 ELSE rr[i]],
                             Len(rr))
             q2 == Tabulate([i \in 1..Len(q) |->
                                 IF i = d - db + 1 THEN c ELSE q[i]],
                            Len(q))
         IN  div_rem_loop(q2, rr2, b)

\* div_rem(a, b) for a non-zero divisor b: <<quotient, remainder>>.
div_rem(a, b) ==
    IF IsBadPoly(a) \/ IsBadPoly(b) THEN <<BadPoly, BadPoly>>
    ELSE div_rem_loop(Tabulate([i \in 1..Len(a) |-> RZero], Len(a)), a, b)

\* Euclid: (a, b) <- (b, a mod b) until b is zero; the first element is
\* returned as it stands (not made monic).
RECURSIVE gcd(_, _)
gcd(a, b) ==
    IF IsBadPoly(a) \/ IsBadPoly(b) THEN BadPoly
    ELSE IF is_zero(b) THEN a
    ELSE gcd(b, div_rem(a, b)[2])

----------------------------------------------------------------------------
(* Polynomial::square_free_factorization *)

PolyInputs ==
    UNION {[1..l -> {FromInt(c) : c \in -MaxCoef..MaxCoef}] : l \in 0..MaxLen}

\* A faulty variant: the early return reports one as the leading coefficient.
ZeroResultOne == [leading_coeff |-> ROne, factors |-> <<>>]

\* The early return for the zero polynomial.
ZeroResult == [leading_coeff |-> RZero, factors |-> <<>>]

\* let u = self.scalar_mul(leading_coeff.clone().checked_inv().unwrap())
MonicOf(p) == scalar_mul(p, checked_inv(leading_coefficient_cloned(p)).val)

\* let mut r = u.clone().gcd(u.clone().derivative())
InitR(u) == gcd(u, derivative(u))

\* A faulty variant: f starts as u itself instead of u / r.
InitFNoDiv(u, r0) == u

\* let mut f = u.div_rem(r.clone()).0
InitF(u, r0) == div_rem(u, r0)[1]

\* let g = r.clone().gcd(f.clone())
StepG(rr, ff) == gcd(rr, ff)

\* A faulty variant: the factor emitted is f, not f / g.
StepSNoDiv(ff, g) == ff

\* let s = f.div_rem(g.clone()).0
StepS(ff, g) == div_rem(ff, g)[1]

\* A faulty variant: r is left as it is.
StepRNoDiv(rr, g) == rr

\* r = r.div_rem(g.clone()).0
StepR(rr, g) == div_rem(rr, g)[1]

\* A faulty variant: the counter is not incremented.
NoIncrement(k) == k

\* j = j.saturating_add(1)
saturating_add(k) == IF k + 1 > UsizeMax THEN UsizeMax ELSE k + 1

\* A faulty variant: the pair is never pushed.
NoPush(fs, s, k) == fs

\* if !s.is_one() { factors.push((s, j)) }
PushIfNotOne(fs, s, k) == IF is_one(s) THEN fs ELSE Append(fs, <<s, k>>)

\* Lines 100-112 as a function of the input: the zero test, the monic working
\* polynomial u, r, f and j.  unwrap of None and division by the zero
\* polynomial panic.
Prologue(p) ==
    IF is_zero(p)
    THEN [pc |-> "done", leading_coeff |-> ZeroResult.leading_coeff,
          factors |-> ZeroResult.factors, r |-> PZero, f |-> PZero, j |-> 1]
    ELSE LET lc == leading_coefficient_cloned(p)
             u == MonicOf(p)
             r0 == InitR(u)
             f0 == InitF(u, r0)
             stop(at) == [pc |-> at, leading_coeff |-> lc, factors |-> <<>>,
                          r |-> PZero, f |-> PZero, j |-> 1]
         IN  IF checked_inv(lc).kind # "some" THEN stop("panic")
             ELSE IF IsBadPoly(u) \/ IsBadPoly(r0) THEN stop("overflow")
             ELSE IF is_zero(r0) THEN stop("panic")
             ELSE IF IsBadPoly(f0) THEN stop("overflow")
             ELSE [pc |-> "loop", leading_coeff |-> lc, factors |-> <<>>,
                   r |-> r0, f |-> f0, j |-> 1]

SqfStart(p) ==
    /\ pc = "idle"
    /\ self' = p
    /\ \E st \in {Prologue(p)} :
        /\ pc' = st.pc
        /\ leading_coeff' = st.leading_coeff
        /\ factors' = st.factors
        /\ r' = st.r
        /\ f' = st.f
        /\ j' = st.j
    /\ UNCHANGED <<divVars, ringVars>>

\* Lines 114-121 as a function of the locals: the body of `while !r.is_one()`.
LoopBody(fs, rr, ff, k) ==
    LET g == StepG(rr, ff)
        s == StepS(ff, g)
        r2 == StepR(rr, g)
        stop(at) == [pc |-> at, factors |-> fs, r |-> rr, f |-> ff, j |-> k]
    IN  IF IsBadPoly(g) THEN stop("overflow")
        ELSE IF is_zero(g) THEN stop("panic")
        ELSE IF IsBadPoly(s) \/ IsBadPoly(r2) THEN stop("overflow")
        ELSE [pc |-> "loop", factors |-> PushIfNotOne(fs, s, k),
              r |-> r2, f |-> g, j |-> saturating_add(k)]

\* Lines 113-122: one iteration of the loop.
SqfLoop ==
    /\ pc = "loop"
    /\ ~is_one(r)
    /\ \E st \in {LoopBody(factors, r, f, j)} :
        /\ pc' = st.pc
        /\ factors' = st.factors
        /\ r' = st.r
        /\ f' = st.f
        /\ j' = st.j
    /\ UNCHANGED <<self, leading_coeff, divVars, ringVars>>

\* Lines 123-129: the loop has ended; the last factor and the result.
SqfFinish ==
    /\ pc = "loop"
    /\ is_one(r)
    /\ pc' = "done"
    /\ factors' = PushIfNotOne(factors, f, j)
    /\ UNCHANGED <<self, leading_coeff, r, f, j, divVars, ringVars>>

----------------------------------------------------------------------------
(* integer_divisors *)

\* Roots::sqrt: the floor of the square root.
sqrt(a) == CHOOSE k \in 0..a : k * k <= a /\ (k + 1) * (k + 1) > a

\* Lines 39-41: n, the initial vector and the start of the range 2..=n.
DivStart(x0) ==
    /\ pc = "idle"
    /\ x' = x0
    /\ n' = sqrt(x0)
    /\ res' = <<1, x0>>
    /\ div' = 2
    /\ pc' = "div_loop"
    /\ UNCHANGED <<sqfVars, ringVars>>

\* Lines 41-49: one iteration of `for div in 2..=n`.
DivStep ==
    /\ pc = "div_loop"
    /\ div <= n
    /\ res' = IF x % div = 0
              THEN LET other == x \div div
                   IN  IF other # div
                       THEN Append(Append(res, other), div)
                       ELSE Append(res, div)
              ELSE res
    /\ div' = div + 1
    /\ UNCHANGED <<pc, x, n, sqfVars, ringVars>>

\* Line 50: the range is exhausted, res is returned.
DivReturn ==
    /\ pc = "div_loop"
    /\ div > n
    /\ pc' = "div_done"
    /\ UNCHANGED <<divVars, sqfVars, ringVars>>

----------------------------------------------------------------------------
(* CommutativeRing::assert_is_unit / invert, CheckedInv, Field::div *)

Unit(v) == [kind |-> "unit", val |-> v]     \* AssertUnit(v)
Panic(v) == [kind |-> "panic", val |-> v]   \* a failed assert!

BigInt_assert_is_unit(v) == IF Abs(v) = 1 THEN Unit(v) ELSE Panic(v)
BigInt_invert(u) == BigInt_assert_is_unit(-u.val)

\* The only values that pass assert_eq!(1, self.abs()) are 1 and -1, whose
\* negation does not overflow an i64.
i64_assert_is_unit(v) == IF Abs(v) = 1 THEN Unit(v) ELSE Panic(v)
i64_invert(u) == i64_assert_is_unit(-u.val)

BigRational_assert_is_unit(v) == IF v # RZero THEN Unit(v) ELSE Panic(v)
BigRational_invert(u) == BigRational_assert_is_unit(recip(u.val))

IntInputs == -MaxNum..MaxNum
RatInputs == {Rat(a, d) : a \in -MaxNum..MaxNum, d \in 1..MaxDen}

\* A caller wraps v with assert_is_unit and, if that did not panic, inverts it.
InvertBigInt(v) ==
    /\ pc = "idle"
    /\ op' = "invert_BigInt"
    /\ arg' = v
    /\ ret' = LET u == BigInt_assert_is_unit(v)
              IN  IF u.kind = "panic" THEN u ELSE BigInt_invert(u)
    /\ pc' = "ring_done"
    /\ UNCHANGED <<arg2, sqfVars, divVars>>

InvertI64(v) ==
    /\ pc = "idle"
    /\ op' = "invert_i64"
    /\ arg' = v
    /\ ret' = LET u == i64_assert_is_unit(v)
              IN  IF u.kind = "panic" THEN u ELSE i64_invert(u)
    /\ pc' = "ring_done"
    /\ UNCHANGED <<arg2, sqfVars, divVars>>

InvertBigRational(v) ==
    /\ pc = "idle"
    /\ op' = "invert_BigRational"
    /\ arg' = v
    /\ ret' = LET u == BigRational_assert_is_unit(v)
              IN  IF u.kind = "panic" THEN u ELSE BigRational_invert(u)
    /\ pc' = "ring_done"
    /\ UNCHANGED <<arg2, sqfVars, divVars>>

CheckedInv(v) ==
    /\ pc = "idle"
    /\ op' = "checked_inv"
    /\ arg' = v
    /\ ret' = checked_inv(v)
    /\ pc' = "ring_done"
    /\ UNCHANGED <<arg2, sqfVars, divVars>>

FieldDiv(a, b) ==
    /\ pc = "idle"
    /\ op' = "div"
    /\ arg' = a
    /\ arg2' = b
    /\ ret' = Field_div(a, b)
    /\ pc' = "ring_done"
    /\ UNCHANGED <<sqfVars, divVars>>

----------------------------------------------------------------------------
(* The library: one call per behaviour, chosen with its arguments *)

Init ==
    /\ pc = "idle"
    /\ self = PZero
    /\ leading_coeff = RZero
    /\ factors = <<>>
    /\ r = PZero
    /\ f = PZero
    /\ j = 1
    /\ x = 1
    /\ n = 1
    /\ div = 2
    /\ res = <<>>
    /\ op = "none"
    /\ arg = RZero
    /\ arg2 = RZero
    /\ ret = None

Next ==
    \/ \E p \in PolyInputs : SqfStart(p)
    \/ SqfLoop
    \/ SqfFinish
    \/ \E x0 \in 1..MaxX : DivStart(x0)
    \/ DivStep
    \/ DivReturn
    \/ \E v \in IntInputs : InvertBigInt(v)
    \/ \E v \in IntInputs : InvertI64(v)
    \/ \E v \in RatInputs : InvertBigRational(v)
    \/ \E v \in RatInputs : CheckedInv(v)
    \/ \E a \in RatInputs, b \in RatInputs : FieldDiv(a, b)

Spec == Init /\ [][Next]_vars

----------------------------------------------------------------------------
(* Polynomial product and power, used to state the properties *)

Coef(p, i) == IF 1 <= i /\ i <= Len(p) THEN p[i] ELSE RZero

RECURSIVE ConvSum(_, _, _, _)
ConvSum(a, b, k, i) ==
    IF i > Len(a) THEN RZero
    ELSE RAdd(RMul(a[i], Coef(b, k + 1 - i)), ConvSum(a, b, k, i + 1))

PMul(a, b) ==
    IF Len(a) = 0 \/ Len(b) = 0 THEN PZero
    ELSE Tabulate([k \in 1..(Len(a) + Len(b) - 1) |-> ConvSum(a, b, k, 1)],
                  Len(a) + Len(b) - 1)

RECURSIVE PPow(_, _)
PPow(a, k) == IF k = 0 THEN POne ELSE PMul(a, PPow(a, k - 1))

RECURSIVE FactorsProduct(_)
FactorsProduct(fs) ==
    IF fs = <<>> THEN POne
    ELSE PMul(PPow(Head(fs)[1], Head(fs)[2]), FactorsProduct(Tail(fs)))

\* leading_coeff times the product of the factors raised to their multiplicities
Reconstructed == scalar_mul(FactorsProduct(factors), leading_coeff)

\* Equality of polynomials as values: stored trailing zeros do not count.
PEq(a, b) == Trim(a) = Trim(b)

IsUnitPoly(p) == ~IsBadPoly(p) /\ degree(p) = 0

Returned == pc = "done"

----------------------------------------------------------------------------
(* Properties *)

\* The calls of the model never hit a panic of the primitives (division by the
\* zero polynomial, unwrap of None).
NoPanic == pc # "panic"

\* C1: for a non-zero input p, leading_coeff times the product of the returned
\* factors, each raised to its multiplicity, equals p (whenever the product is
\* within the magnitudes the model computes with).
C1_Reconstruction ==
    (Returned /\ ~is_zero(self)) =>
        (IsBadPoly(Reconstructed) \/ PEq(Reconstructed, self))

\* C1 witness: a returned factorization with two factors whose product was
\* computed and compared.
C1_Witness ==
    /\ Returned
    /\ Len(factors) >= 2
    /\ degree(self) >= 3
    /\ ~IsBadPoly(Reconstructed)

\* C2: every returned factor is monic and non-constant.
C2_MonicNonConstant ==
    (Returned /\ ~is_zero(self)) =>
        \A i \in 1..Len(factors) :
            /\ degree(factors[i][1]) >= 1
            /\ leading_coefficient_cloned(factors[i][1]) = ROne

\* C3: an input of degree at most 0 yields no factors; leading_coeff is 0 for
\* the zero polynomial (empty or all-zero) and c for the constant c; the loop
\* is never entered for it.
C3_ConstantInput ==
    (degree(self) <= 0 /\ pc \in {"loop", "done"}) =>
        /\ factors = <<>>
        /\ leading_coeff = (IF is_zero(self) THEN RZero ELSE self[1])
        /\ pc = "loop" => (is_one(r) /\ is_one(f))

\* C3 witness: the constant 2 stored with trailing zeros has been factored.
C3_Witness ==
    /\ Returned
    /\ degree(self) = 0
    /\ Len(self) >= 2
    /\ leading_coeff = FromInt(2)
    /\ factors = <<>>

\* C4: the multiplicities of the factor list are at least 1 and strictly
\* increase in list order, and the counter j the next pair would carry is
\* above all of them.
C4_MultiplicitiesIncrease ==
    pc \in {"loop", "done"} =>
        \A i \in 1..Len(factors) :
            /\ factors[i][2] >= 1
            /\ i > 1 => factors[i - 1][2] < factors[i][2]
            /\ pc = "loop" => factors[i][2] < j

\* C4 witness: a returned list whose second pair, pushed after the loop,
\* carries the counter after two increments.
C4_Witness == Returned /\ Len(factors) = 2 /\ factors[2][2] = 3

\* C5: every returned factor s is square-free: gcd(s, s') is a non-zero
\* constant.
C5_SquareFree ==
    Returned =>
        \A i \in 1..Len(factors) :
            LET s == factors[i][1]
                g == gcd(s, derivative(s))
            IN  IsBadPoly(g) \/ IsUnitPoly(g)

\* C5 witness: a factor of degree 2 was returned and its gcd with its
\* derivative computed.
C5_Witness ==
    /\ Returned
    /\ \E i \in 1..Len(factors) :
        /\ degree(factors[i][1]) >= 2
        /\ IsUnitPoly(gcd(factors[i][1], derivative(factors[i][1])))

\* C6: two factors at different positions of the returned list are coprime:
\* their gcd is a non-zero constant.
C6_PairwiseCoprime ==
    Returned =>
        \A i, k \in 1..Len(factors) :
            i # k =>
                LET g == gcd(factors[i][1], factors[k][1])
                IN  IsBadPoly(g) \/ IsUnitPoly(g)

\* C6 witness: two non-constant factors were returned and found coprime.
C6_Witness ==
    /\ Returned
    /\ \E i, k \in 1..Len(factors) :
        /\ i # k
        /\ degree(factors[i][1]) >= 1
        /\ degree(factors[k][1]) >= 1
        /\ IsUnitPoly(gcd(factors[i][1], factors[k][1]))

\* C7: invert returns the multiplicative inverse of a known unit, and the
\* result is a unit, in BigInt, i64 and BigRational.
C7_InvertIsInverse ==
    (pc = "ring_done" /\ ret.kind # "panic") =>
        /\ op \in {"invert_BigInt", "invert_i64"} =>
              (ret.kind = "unit" /\ arg * ret.val = 1)
        /\ op = "invert_BigRational" =>
              (ret.kind = "unit" /\ RMul(arg, ret.val) = ROne)

\* C8: checked_inv never panics, returns None exactly for zero and otherwise r
\* with v * r = 1; Field::div(a, b) returns None exactly when b is zero and
\* otherwise a * b^-1, the value q with q * b = a.
C8_CheckedInv ==
    pc = "ring_done" =>
        /\ op = "checked_inv" =>
              /\ ret.kind \in {"none", "some"}
              /\ ret.kind = "none" <=> arg = RZero
              /\ ret.kind = "some" =>
                    (IsRat(ret.val) /\ RMul(arg, ret.val) = ROne)
        /\ op = "div" =>
              /\ ret.kind \in {"none", "some"}
              /\ ret.kind = "none" <=> arg2 = RZero
              /\ ret.kind = "some" =>
                    /\ IsRat(ret.val)
                    /\ ret.val = RMul(arg, recip(arg2))
                    /\ RMul(ret.val, arg2) = arg

\* C8 witness: checked_inv(2/3) returned 3/2.
C8_Witness ==
    /\ pc = "ring_done"
    /\ op = "checked_inv"
    /\ arg = <<2, 3>>
    /\ ret = Some(<<3, 2>>)

Range(s) == {s[i] : i \in 1..Len(s)}

\* C9: for positive x, integer_divisors(x) holds exactly the positive divisors
\* of x, none of them twice.
C9_Divisors ==
    pc = "div_done" =>
        /\ Range(res) = {d \in 1..x : x % d = 0}
        /\ Cardinality(Range(res)) = Len(res)

\* The variant of the loop: zero exactly when the exit test `r.is_one()` holds.
Rank(p) == IF is_one(p) THEN 0 ELSE degree(p) + 1

\* C10: the loop `while !r.is_one()` terminates for every non-zero input: each
\* iteration that stays in the loop lowers the variant of r (the degree of r
\* drops, and a constant r becomes exactly one, on which the loop exits), and
\* the number of iterations is at most the degree of the input.
C10_LoopTerminates ==
    [][(pc = "loop" /\ pc' = "loop") =>
          (Rank(r') < Rank(r) /\ j' <= degree(self) + 1)]_vars

\* C10 witness: a call returned after three iterations, the last of which
\* started from a constant r other than one.
C10_Witness == Returned /\ j >= 4 /\ is_one(r)

====
